---- MODULE Spec2Model ----
(***************************************************************************)
(* The fuzzing statistics store of pkg/fuzz/stats: the Tracker facade      *)
(* (stats.go), the sqlite-backed StatsDatabase (sqliteStatsDatabase) with  *)
(* its three identifier caches, and the transaction InsertRecord runs for  *)
(* every event.                                                            *)
(*                                                                         *)
(* Strings that the code takes apart or glues together (site names, cache  *)
(* keys) are sequences of tokens: "a:80" is <<"a", ":", "80">>.            *)
(*                                                                         *)
(* The sqlite file is modelled by its committed tables (db), the working   *)
(* copy of the one connection that holds the write lock (tx, writer), and  *)
(* the files of the scan name that exist on disk (files).  Every statement *)
(* InsertRecord issues is an INSERT, so a transaction takes the write lock *)
(* at its first statement and keeps it until Commit or Rollback.           *)
(***************************************************************************)
EXTENDS Integers, Sequences, FiniteSets, TLC

VARIABLES
    db,                \* committed tables of <scanName>.stats.db
    tx,                \* tables as seen by the transaction holding the write lock
    writer,            \* the caller whose transaction holds the write lock, 0 if none
    files,             \* files of the scan name present on disk
    closed,            \* sql.DB of the current store has been closed
    siteIDCache,       \* sqliteStatsDatabase.siteIDCache
    templateIDCache,   \* sqliteStatsDatabase.templateIDCache
    componentIDCache,  \* sqliteStatsDatabase.componentIDCache
    pc,                \* position of every caller inside InsertRecord
    ev,                \* the event every caller is recording
    ids,               \* siteID, templateID, componentID locals of InsertRecord
    ret,               \* what the caller's last InsertRecord returned
    calls,             \* record calls started so far
    faults,            \* store failures (I/O, busy) that happened so far
    run,               \* trackers constructed so far on this scan name
    cacheMutex,        \* the caller that holds sqliteStatsDatabase.cacheMutex, 0 if none
    firstSiteID,       \* history: the site_id the first resolution of a site name returned
    recorded,          \* history: event and identifiers of each call of this tracker that committed
    exec,              \* the nucleiExecutor that owns the tracker
    norm               \* a URL handed to getCorrectSiteName, and the site key it gave

vars == <<db, tx, writer, files, closed, siteIDCache, templateIDCache,
          componentIDCache, pc, ev, ids, ret, calls, faults, run,
          cacheMutex, firstSiteID, recorded, exec, norm>>

\* What the steps of a record call leave alone: the executor and the site key
\* computation.
outer == <<recorded, exec, norm>>

\* ------------------------------------------------------------------ bounds

NumProcs == 2
MaxCalls == 2
MaxFaults == 1
MaxRuns == 2

Procs == 1..NumProcs

\* ------------------------------------------------------------------ events

URL(scheme, host, port) == [Scheme |-> scheme, Host |-> host, Port |-> port]

\* The rule without its default ports: the host part as it was parsed.
getCorrectSiteName_HostOnly(u) ==
    IF u.Port # "" THEN <<u.Host, ":", u.Port>>
    ELSE IF u.Host = "" THEN << >>
    ELSE <<u.Host>>

\* url.Parse followed by the host:port rule of getCorrectSiteName.
getCorrectSiteName(u) ==
    IF u.Port # "" THEN <<u.Host, ":", u.Port>>
    ELSE IF u.Scheme = "https" THEN <<u.Host, ":", "443">>
    ELSE IF u.Scheme = "http" THEN <<u.Host, ":", "80">>
    ELSE IF u.Host = "" THEN << >>
    ELSE <<u.Host>>

\* A URL as the caller writes it, a sequence of tokens:
\* [scheme "://"] host [":" port] [path].  "%zz" is an invalid escape.
Schemes == {"http", "https", "ftp"}
Hosts == {"example.com", "a", "%zz"}
Ports == {"80", "8443"}

RawURLs ==
    { sch \o hp \o path :
        sch \in {<< >>} \cup {<<x, "://">> : x \in Schemes},
        hp \in {<<h>> : h \in Hosts}
                \cup {<<h, ":", q>> : h \in Hosts, q \in Ports},
        path \in {<< >>, <<"/path">>} }
    \cup {<<"not a url">>}

\* url.Parse(inputURL): an invalid escape is an error; without "scheme://" the
\* text is a path (or an opaque part) and the URL has no host; otherwise the
\* authority is split into host and port.
urlParse(raw) ==
    IF \E i \in 1..Len(raw) : raw[i] = "%zz"
    THEN [ok |-> FALSE, url |-> URL("", "", "")]
    ELSE IF ~(Len(raw) >= 2 /\ raw[2] = "://")
    THEN [ok |-> TRUE, url |-> URL("", "", "")]
    ELSE [ok |-> TRUE,
          url |-> URL(raw[1],
                      IF Len(raw) >= 3 /\ raw[3] # "/path" THEN raw[3] ELSE "",
                      IF Len(raw) >= 5 /\ raw[4] = ":" THEN raw[5] ELSE "")]

\* getCorrectSiteName on the text of a URL: a parse error gives "".
SiteNameOf(raw) ==
    IF ~urlParse(raw).ok THEN << >> ELSE getCorrectSiteName(urlParse(raw).url)

FuzzingEvent(u, ctype, cname, tmpl, payload, status) ==
    [URL |-> u, ComponentType |-> ctype, ComponentName |-> cname,
     TemplateID |-> tmpl, PayloadSent |-> payload, StatusCode |-> status]

Events ==
    { FuzzingEvent(URL("http", "a", ""), <<"form">>, <<"login">>, "t1", "p1", 200),
      FuzzingEvent(URL("https", "b", ""), <<"form">>, <<"login">>, "t1", "p2", 500),
      FuzzingEvent(URL("http", "a", "80"), <<"query">>, <<"id">>, "t2", "p1", 200) }

NoEvent == [SiteName |-> << >>, ComponentType |-> << >>, ComponentName |-> << >>,
            TemplateID |-> "", PayloadSent |-> "", StatusCode |-> 0]

\* Tracker.RecordResultEvent: the site name is derived from the URL before
\* the event reaches the store.
Normalized(e) ==
    [SiteName |-> getCorrectSiteName(e.URL), ComponentType |-> e.ComponentType,
     ComponentName |-> e.ComponentName, TemplateID |-> e.TemplateID,
     PayloadSent |-> e.PayloadSent, StatusCode |-> e.StatusCode]

\* ------------------------------------------------------------------ tables

EmptyTables == [sites |-> {}, templates |-> {}, components |-> {}, results |-> {}]

EmptyMap == [k \in {} |-> 0]

Put(m, k, v) == [x \in DOMAIN m \cup {k} |-> IF x = k THEN v ELSE m[x]]

Max(S) == CHOOSE x \in S : \A y \in S : y <= x

\* The integer identity sqlite gives a new row: one more than the largest
\* identity the connection sees in the table.
NextID(idsInTable) == IF idsInTable = {} THEN 1 ELSE Max(idsInTable) + 1

\* sites without its uniqueness constraint: no insert is ever ignored.
SiteConflict_NoConstraint(t, siteName) == FALSE

\* schema.sql: UNIQUE(site_name), UNIQUE(template_name),
\* UNIQUE(site_id, component_type, component_name).
SiteConflict(t, siteName) == \E r \in t.sites : r.site_name = siteName

TemplateConflict(t, templateName) ==
    \E r \in t.templates : r.template_name = templateName

ComponentConflict(t, siteID, componentType, componentName) ==
    \E r \in t.components : /\ r.site_id = siteID
                            /\ r.component_type = componentType
                            /\ r.component_name = componentName

\* INSERT OR IGNORE INTO sites (site_name) VALUES (?) RETURNING site_id,
\* scanned into siteID: a row that the uniqueness constraint makes sqlite
\* ignore returns no row, and Scan answers sql.ErrNoRows.
SiteInsertRow(t, siteName) ==
    [site_id |-> NextID({r.site_id : r \in t.sites}), site_name |-> siteName]

TemplateInsertRow(t, templateName) ==
    [template_id |-> NextID({r.template_id : r \in t.templates}),
     template_name |-> templateName]

ComponentInsertRow(t, siteID, componentType, componentName) ==
    [component_id |-> NextID({r.component_id : r \in t.components}),
     site_id |-> siteID, component_type |-> componentType,
     component_name |-> componentName]

\* The fact insert as an INSERT OR REPLACE on a fixed identity: the new row
\* takes the place of the one stored before.
insertFuzzingResult_Replace(t, componentID, templateID, payloadSent, statusCode) ==
    [t EXCEPT !.results =
        {[id |-> 1, component_id |-> componentID, template_id |-> templateID,
          payload_sent |-> payloadSent, status_code_received |-> statusCode]}]

\* INSERT INTO fuzzing_results (component_id, template_id, payload_sent,
\* status_code_received) VALUES (?, ?, ?, ?)
insertFuzzingResult(t, componentID, templateID, payloadSent, statusCode) ==
    [t EXCEPT !.results = @ \cup
        {[id |-> NextID({r.id : r \in t.results}),
          component_id |-> componentID, template_id |-> templateID,
          payload_sent |-> payloadSent, status_code_received |-> statusCode]}]

\* fmt.Sprintf("%d:%s:%s", siteID, componentType, componentName)
ComponentKey(siteID, componentType, componentName) ==
    <<siteID>> \o <<":">> \o componentType \o <<":">> \o componentName

\* ------------------------------------------------------------------ results

Nil == [msg |-> "nil", cause |-> ""]
Pending == [msg |-> "", cause |-> ""]
Err(msg, cause) == [msg |-> msg, cause |-> cause]

NoIDs == [site |-> 0, template |-> 0, component |-> 0]

AllFiles == {"stats.db", "stats.db-wal", "stats.db-shm"}

\* newNucleiExecutor returned an executor whose executorOpts.FuzzStatsDB is
\* the tracker; log lists the calls nucleiExecutor.Close made on the tracker.
ExecutorWithTracker ==
    [state |-> "ready", FuzzStatsDB |-> "tracker", trackerErr |-> "",
     reportErr |-> "", log |-> << >>]

\* No URL has been handed to getCorrectSiteName.
NoNorm == [url |-> << >>, key |-> << >>, done |-> FALSE]

\* ------------------------------------------------------------------ Init

\* newSqliteStatsDatabase on a scan name with no file yet: the schema is
\* applied, the caches are empty maps.
Init ==
    /\ db = EmptyTables
    /\ tx = EmptyTables
    /\ writer = 0
    /\ files = AllFiles
    /\ closed = FALSE
    /\ siteIDCache = EmptyMap
    /\ templateIDCache = EmptyMap
    /\ componentIDCache = EmptyMap
    /\ pc = [p \in Procs |-> "idle"]
    /\ ev = [p \in Procs |-> NoEvent]
    /\ ids = [p \in Procs |-> NoIDs]
    /\ ret = [p \in Procs |-> Pending]
    /\ calls = 0
    /\ faults = 0
    /\ run = 1
    /\ cacheMutex = 0
    /\ firstSiteID = EmptyMap
    /\ recorded = {}
    /\ exec = ExecutorWithTracker
    /\ norm = NoNorm

\* ------------------------------------------------------------------ steps

\* Store failures (disk, I/O, SQLITE_BUSY after the busy timeout) are inputs of
\* the environment; at most MaxFaults of them happen in a behaviour.
FaultChoices == IF faults < MaxFaults THEN {TRUE, FALSE} ELSE {FALSE}

Faulted(fault) == faults' = IF fault THEN faults + 1 ELSE faults

\* Rollback as it would be if the deferred func ended the transaction with
\* tx.Commit(): the statements of the failed call become durable.
Rollback_Commits(p) ==
    IF writer = p
    THEN [db |-> tx, tx |-> tx, writer |-> 0]
    ELSE [db |-> db, tx |-> tx, writer |-> writer]

\* The deferred func of InsertRecord: tx.Rollback() when err # nil.  The
\* working copy is dropped and the write lock released; the committed tables
\* stay as they are.
Rollback(p) ==
    IF writer = p
    THEN [db |-> db, tx |-> db, writer |-> 0]
    ELSE [db |-> db, tx |-> tx, writer |-> writer]

\* tx.Commit(): the working copy becomes the committed tables.
CommitTx(p) ==
    IF writer = p
    THEN [db |-> tx, tx |-> tx, writer |-> 0]
    ELSE [db |-> db, tx |-> tx, writer |-> writer]

SetStore(s) == db' = s.db /\ tx' = s.tx /\ writer' = s.writer

\* return errors.Wrap(err, msg), with the deferred rollback.
ReturnError(p, msg, cause) ==
    /\ SetStore(Rollback(p))
    /\ pc' = [pc EXCEPT ![p] = "idle"]
    /\ ret' = [ret EXCEPT ![p] = Err(msg, cause)]
    /\ ids' = [ids EXCEPT ![p] = NoIDs]
    /\ ev' = [ev EXCEPT ![p] = NoEvent]

\* A statement of p's transaction can run: no other connection holds the
\* write lock.
CanWrite(p) == writer \in {0, p}

\* What the caller of Tracker.RecordResultEvent gets when the store returned
\* err: the function has no result, the store's answer is dropped.
NoValue == [msg |-> "no value", cause |-> ""]

RecordResultEvent_Returns(err) == NoValue

\* Tracker.RecordResultEvent -> InsertRecord up to s.db.Begin().
RecordResultEvent(p, e) ==
    /\ UNCHANGED <<cacheMutex, firstSiteID, outer>>
    /\ pc[p] = "idle"
    /\ calls' = calls + 1
    /\ \E fault \in FaultChoices :
        /\ Faulted(fault)
        /\ IF closed \/ fault
           THEN /\ ret' = [ret EXCEPT ![p] =
                      Err("could not begin transaction",
                          IF closed THEN "closed" ELSE "io")]
                /\ UNCHANGED <<pc, ev, ids>>
           ELSE /\ pc' = [pc EXCEPT ![p] = "getSiteID"]
                /\ ev' = [ev EXCEPT ![p] = Normalized(e)]
                /\ ids' = [ids EXCEPT ![p] = NoIDs]
                /\ ret' = [ret EXCEPT ![p] = Pending]
    /\ UNCHANGED <<db, tx, writer, files, closed, siteIDCache, templateIDCache,
                   componentIDCache, run>>

\* The places of a record call at which it asks for cacheMutex.
LockPoints ==
    {"getSiteID", "getSiteID_Cache", "getTemplateID", "getTemplateID_Cache",
     "getComponentID", "getComponentID_Cache"}

\* s.cacheMutex.Lock(), lines 109, 125, 135, 150, 161, 176: the caller waits
\* until no one holds the mutex.
Lock(p) ==
    /\ pc[p] \in LockPoints
    /\ cacheMutex = 0
    /\ cacheMutex' = p
    /\ UNCHANGED <<db, tx, writer, files, closed, siteIDCache, templateIDCache,
                   componentIDCache, pc, ev, ids, ret, calls, faults, run,
                   firstSiteID, outer>>

\* A critical section that returns without unlocking.
Unlock_Forgotten(p) == cacheMutex = p /\ cacheMutex' = p

\* s.cacheMutex.Unlock(), lines 111, 114, 128, 137, 140, 153, 163, 166, 179:
\* the holder releases the mutex as it leaves the map access.
Unlock(p) == cacheMutex = p /\ cacheMutex' = 0

\* getSiteID, lines 110-114: the cache lookup and s.cacheMutex.Unlock().
getSiteID_Lookup(p) ==
    /\ Unlock(p)
    /\ UNCHANGED outer
    /\ UNCHANGED firstSiteID
    /\ pc[p] = "getSiteID"
    /\ IF ev[p].SiteName \in DOMAIN siteIDCache
       THEN /\ ids' = [ids EXCEPT ![p].site = siteIDCache[ev[p].SiteName]]
            /\ pc' = [pc EXCEPT ![p] = "getTemplateID"]
       ELSE /\ pc' = [pc EXCEPT ![p] = "getSiteID_Insert"]
            /\ UNCHANGED ids
    /\ UNCHANGED <<db, tx, writer, files, closed, siteIDCache, templateIDCache,
                   componentIDCache, ev, ret, calls, faults, run>>

\* getSiteID, lines 116-122: the INSERT OR IGNORE ... RETURNING and its Scan.
getSiteID_Insert(p) ==
    /\ UNCHANGED <<cacheMutex, firstSiteID, outer>>
    /\ pc[p] = "getSiteID_Insert"
    /\ \E fault \in FaultChoices :
        /\ Faulted(fault)
        /\ IF fault
           THEN ReturnError(p, "could not get site_id", "io")
           ELSE /\ CanWrite(p)
                /\ IF SiteConflict(tx, ev[p].SiteName)
                   THEN ReturnError(p, "could not get site_id", "ErrNoRows")
                   ELSE LET row == SiteInsertRow(tx, ev[p].SiteName) IN
                        /\ tx' = [tx EXCEPT !.sites = @ \cup {row}]
                        /\ writer' = p
                        /\ ids' = [ids EXCEPT ![p].site = row.site_id]
                        /\ pc' = [pc EXCEPT ![p] = "getSiteID_Cache"]
                        /\ UNCHANGED <<db, ev, ret>>
    /\ UNCHANGED <<files, closed, siteIDCache, templateIDCache,
                   componentIDCache, calls, run>>

\* getSiteID, lines 126-129: the cache is filled and cacheMutex unlocked.
getSiteID_Cache(p) ==
    /\ Unlock(p)
    /\ UNCHANGED outer
    /\ pc[p] = "getSiteID_Cache"
    /\ siteIDCache' = Put(siteIDCache, ev[p].SiteName, ids[p].site)
    /\ firstSiteID' = IF ev[p].SiteName \in DOMAIN firstSiteID
                      THEN firstSiteID
                      ELSE Put(firstSiteID, ev[p].SiteName, ids[p].site)
    /\ pc' = [pc EXCEPT ![p] = "getTemplateID"]
    /\ UNCHANGED <<db, tx, writer, files, closed, templateIDCache,
                   componentIDCache, ev, ids, ret, calls, faults, run>>

\* getTemplateID, lines 135-140.
getTemplateID_Lookup(p) ==
    /\ Unlock(p)
    /\ UNCHANGED outer
    /\ UNCHANGED firstSiteID
    /\ pc[p] = "getTemplateID"
    /\ IF ev[p].TemplateID \in DOMAIN templateIDCache
       THEN /\ ids' = [ids EXCEPT ![p].template = templateIDCache[ev[p].TemplateID]]
            /\ pc' = [pc EXCEPT ![p] = "getComponentID"]
       ELSE /\ pc' = [pc EXCEPT ![p] = "getTemplateID_Insert"]
            /\ UNCHANGED ids
    /\ UNCHANGED <<db, tx, writer, files, closed, siteIDCache, templateIDCache,
                   componentIDCache, ev, ret, calls, faults, run>>

\* getTemplateID, lines 142-148.
getTemplateID_Insert(p) ==
    /\ UNCHANGED <<cacheMutex, firstSiteID, outer>>
    /\ pc[p] = "getTemplateID_Insert"
    /\ \E fault \in FaultChoices :
        /\ Faulted(fault)
        /\ IF fault
           THEN ReturnError(p, "could not get template_id", "io")
           ELSE /\ CanWrite(p)
                /\ IF TemplateConflict(tx, ev[p].TemplateID)
                   THEN ReturnError(p, "could not get template_id", "ErrNoRows")
                   ELSE LET row == TemplateInsertRow(tx, ev[p].TemplateID) IN
                        /\ tx' = [tx EXCEPT !.templates = @ \cup {row}]
                        /\ writer' = p
                        /\ ids' = [ids EXCEPT ![p].template = row.template_id]
                        /\ pc' = [pc EXCEPT ![p] = "getTemplateID_Cache"]
                        /\ UNCHANGED <<db, ev, ret>>
    /\ UNCHANGED <<files, closed, siteIDCache, templateIDCache,
                   componentIDCache, calls, run>>

\* getTemplateID, lines 150-154.
getTemplateID_Cache(p) ==
    /\ Unlock(p)
    /\ UNCHANGED outer
    /\ UNCHANGED firstSiteID
    /\ pc[p] = "getTemplateID_Cache"
    /\ templateIDCache' = Put(templateIDCache, ev[p].TemplateID, ids[p].template)
    /\ pc' = [pc EXCEPT ![p] = "getComponentID"]
    /\ UNCHANGED <<db, tx, writer, files, closed, siteIDCache,
                   componentIDCache, ev, ids, ret, calls, faults, run>>

\* The key getComponentID builds for p's event and resolved site.
KeyOf(p) == ComponentKey(ids[p].site, ev[p].ComponentType, ev[p].ComponentName)

\* getComponentID, lines 158-166.
getComponentID_Lookup(p) ==
    /\ Unlock(p)
    /\ UNCHANGED outer
    /\ UNCHANGED firstSiteID
    /\ pc[p] = "getComponentID"
    /\ IF KeyOf(p) \in DOMAIN componentIDCache
       THEN /\ ids' = [ids EXCEPT ![p].component = componentIDCache[KeyOf(p)]]
            /\ pc' = [pc EXCEPT ![p] = "insertFuzzingResult"]
       ELSE /\ pc' = [pc EXCEPT ![p] = "getComponentID_Insert"]
            /\ UNCHANGED ids
    /\ UNCHANGED <<db, tx, writer, files, closed, siteIDCache, templateIDCache,
                   componentIDCache, ev, ret, calls, faults, run>>

\* getComponentID, lines 168-174.
getComponentID_Insert(p) ==
    /\ UNCHANGED <<cacheMutex, firstSiteID, outer>>
    /\ pc[p] = "getComponentID_Insert"
    /\ \E fault \in FaultChoices :
        /\ Faulted(fault)
        /\ IF fault
           THEN ReturnError(p, "could not get component_id", "io")
           ELSE /\ CanWrite(p)
                /\ IF ComponentConflict(tx, ids[p].site, ev[p].ComponentType,
                                        ev[p].ComponentName)
                   THEN ReturnError(p, "could not get component_id", "ErrNoRows")
                   ELSE LET row == ComponentInsertRow(tx, ids[p].site,
                                       ev[p].ComponentType, ev[p].ComponentName) IN
                        /\ tx' = [tx EXCEPT !.components = @ \cup {row}]
                        /\ writer' = p
                        /\ ids' = [ids EXCEPT ![p].component = row.component_id]
                        /\ pc' = [pc EXCEPT ![p] = "getComponentID_Cache"]
                        /\ UNCHANGED <<db, ev, ret>>
    /\ UNCHANGED <<files, closed, siteIDCache, templateIDCache,
                   componentIDCache, calls, run>>

\* getComponentID, lines 176-180.
getComponentID_Cache(p) ==
    /\ Unlock(p)
    /\ UNCHANGED outer
    /\ UNCHANGED firstSiteID
    /\ pc[p] = "getComponentID_Cache"
    /\ componentIDCache' = Put(componentIDCache, KeyOf(p), ids[p].component)
    /\ pc' = [pc EXCEPT ![p] = "insertFuzzingResult"]
    /\ UNCHANGED <<db, tx, writer, files, closed, siteIDCache,
                   templateIDCache, ev, ids, ret, calls, faults, run>>

\* InsertRecord, lines 94-97.
InsertRecord_Fact(p) ==
    /\ UNCHANGED <<cacheMutex, firstSiteID, outer>>
    /\ pc[p] = "insertFuzzingResult"
    /\ \E fault \in FaultChoices :
        /\ Faulted(fault)
        /\ IF fault
           THEN ReturnError(p, "could not insert fuzzing result", "io")
           ELSE /\ CanWrite(p)
                /\ tx' = insertFuzzingResult(tx, ids[p].component, ids[p].template,
                                             ev[p].PayloadSent, ev[p].StatusCode)
                /\ writer' = p
                /\ pc' = [pc EXCEPT ![p] = "Commit"]
                /\ UNCHANGED <<db, ev, ids, ret>>
    /\ UNCHANGED <<files, closed, siteIDCache, templateIDCache,
                   componentIDCache, calls, run>>

\* InsertRecord, lines 99-103.  A Commit that fails leaves database/sql's Tx
\* done and the driver rolls the connection back.
InsertRecord_Commit(p) ==
    /\ UNCHANGED <<cacheMutex, firstSiteID, exec, norm>>
    /\ pc[p] = "Commit"
    /\ \E fault \in FaultChoices :
        /\ Faulted(fault)
        /\ IF fault
           THEN /\ ReturnError(p, "could not commit transaction", "io")
                /\ UNCHANGED recorded
           ELSE /\ SetStore(CommitTx(p))
                /\ recorded' = recorded \cup {[ev |-> ev[p], ids |-> ids[p]]}
                /\ pc' = [pc EXCEPT ![p] = "idle"]
                /\ ret' = [ret EXCEPT ![p] = Nil]
                /\ ids' = [ids EXCEPT ![p] = NoIDs]
                /\ ev' = [ev EXCEPT ![p] = NoEvent]
    /\ UNCHANGED <<files, closed, siteIDCache, templateIDCache,
                   componentIDCache, calls, run>>

\* Close without its second os.Remove.
FilesAfterClose_WalOnly(f) == f \ {"stats.db-wal"}

\* The files Close leaves on disk: os.Remove of the -wal and -shm files.
FilesAfterClose(f) == f \ {"stats.db-wal", "stats.db-shm"}

\* Tracker.Close -> sqliteStatsDatabase.Close.
Close ==
    /\ UNCHANGED <<cacheMutex, firstSiteID, outer>>
    /\ ~closed
    /\ closed' = TRUE
    /\ files' = FilesAfterClose(files)
    /\ UNCHANGED <<db, tx, writer, siteIDCache, templateIDCache,
                   componentIDCache, pc, ev, ids, ret, calls, faults, run>>

\* NewTracker -> newSqliteStatsDatabase on the same scan name, once the
\* previous tracker is closed and no call on it is running: the file is
\* opened as it was left, the schema creates only what is absent, the caches
\* are new maps.
NewTracker ==
    /\ UNCHANGED <<cacheMutex, exec, norm>>
    /\ closed
    /\ run < MaxRuns
    /\ \A p \in Procs : pc[p] = "idle"
    /\ run' = run + 1
    /\ closed' = FALSE
    /\ files' = AllFiles
    /\ siteIDCache' = EmptyMap
    /\ templateIDCache' = EmptyMap
    /\ componentIDCache' = EmptyMap
    /\ firstSiteID' = EmptyMap
    /\ recorded' = {}
    /\ ret' = [p \in Procs |-> Pending]
    /\ UNCHANGED <<db, tx, writer, pc, ev, ids, calls, faults>>

\* A caller records one of Events; at most MaxCalls record calls are made.
Record(p) == calls < MaxCalls /\ \E e \in Events : RecordResultEvent(p, e)

Next ==
    \/ \E p \in Procs : Record(p)
    \/ \E p \in Procs : Lock(p)
    \/ \E p \in Procs : getSiteID_Lookup(p)
    \/ \E p \in Procs : getSiteID_Insert(p)
    \/ \E p \in Procs : getSiteID_Cache(p)
    \/ \E p \in Procs : getTemplateID_Lookup(p)
    \/ \E p \in Procs : getTemplateID_Insert(p)
    \/ \E p \in Procs : getTemplateID_Cache(p)
    \/ \E p \in Procs : getComponentID_Lookup(p)
    \/ \E p \in Procs : getComponentID_Insert(p)
    \/ \E p \in Procs : getComponentID_Cache(p)
    \/ \E p \in Procs : InsertRecord_Fact(p)
    \/ \E p \in Procs : InsertRecord_Commit(p)
    \/ Close
    \/ NewTracker

Spec == Init /\ [][Next]_vars

\* One step of the record call that caller p is running.
Step(p) ==
    \/ Lock(p)
    \/ getSiteID_Lookup(p)
    \/ getSiteID_Insert(p)
    \/ getSiteID_Cache(p)
    \/ getTemplateID_Lookup(p)
    \/ getTemplateID_Insert(p)
    \/ getTemplateID_Cache(p)
    \/ getComponentID_Lookup(p)
    \/ getComponentID_Insert(p)
    \/ getComponentID_Cache(p)
    \/ InsertRecord_Fact(p)
    \/ InsertRecord_Commit(p)

\* ------------------------------------------------------- fair record calls

\* Record calls on one open tracker under a fair scheduler: a call whose next
\* statement can run does run it.  The callers record events of two sites
\* that share their template, component type and component name.
FairEvents ==
    { FuzzingEvent(URL("http", "a", ""), <<"form">>, <<"login">>, "t1", "p1", 200),
      FuzzingEvent(URL("https", "b", ""), <<"form">>, <<"login">>, "t1", "p2", 500) }

RecordFair(p) ==
    calls < MaxCalls /\ \E e \in FairEvents : RecordResultEvent(p, e)

NextCalls ==
    \/ \E p \in Procs : RecordFair(p)
    \/ \E p \in Procs : Step(p)

SpecFair ==
    Init /\ [][NextCalls]_vars /\ \A p \in Procs : WF_vars(Step(p))

\* ------------------------------------------------------------ the executor

\* opts.Options.DASTScanName: not configured, or a name.
DASTScanNames == {"", "scan"}

\* Before newNucleiExecutor: no executor, no tracker, no store file.
NoExecutor ==
    [state |-> "new", FuzzStatsDB |-> "nil", trackerErr |-> "",
     reportErr |-> "", log |-> << >>]

InitExec ==
    /\ db = EmptyTables /\ tx = EmptyTables /\ writer = 0
    /\ files = {} /\ closed = TRUE
    /\ siteIDCache = EmptyMap /\ templateIDCache = EmptyMap
    /\ componentIDCache = EmptyMap
    /\ pc = [p \in Procs |-> "idle"] /\ ev = [p \in Procs |-> NoEvent]
    /\ ids = [p \in Procs |-> NoIDs] /\ ret = [p \in Procs |-> Pending]
    /\ calls = 0 /\ faults = 0 /\ run = 1
    /\ cacheMutex = 0 /\ firstSiteID = EmptyMap /\ recorded = {}
    /\ exec = NoExecutor
    /\ norm = NoNorm

\* NewTracker (stats.go:17-28): no tracker and a wrapped error when the store
\* cannot be opened or its schema cannot be applied.
NewTrackerReturns(openFails) ==
    IF openFails
    THEN [tracker |-> "nil", err |-> "could not create new tracker"]
    ELSE [tracker |-> "tracker", err |-> ""]

\* newNucleiExecutor, part_000:87-93: the tracker is constructed only when a
\* scan name is configured; an error of its construction is returned, with no
\* executor.
newNucleiExecutor ==
    /\ exec.state = "new"
    /\ \E scanName \in DASTScanNames : \E openFails \in BOOLEAN :
        LET t == NewTrackerReturns(openFails) IN
        IF scanName = ""
        THEN /\ exec' = [exec EXCEPT !.state = "ready"]
             /\ UNCHANGED <<files, closed>>
        ELSE IF t.err # ""
        THEN /\ exec' = [exec EXCEPT !.state = "failed", !.trackerErr = t.err]
             /\ UNCHANGED <<files, closed>>
        ELSE /\ exec' = [exec EXCEPT !.state = "ready", !.FuzzStatsDB = t.tracker]
             /\ files' = AllFiles
             /\ closed' = FALSE
    /\ UNCHANGED <<db, tx, writer, siteIDCache, templateIDCache,
                   componentIDCache, pc, ev, ids, ret, calls, faults, run,
                   cacheMutex, firstSiteID, recorded, norm>>

\* The workers of a running scan record events on the executor's tracker.
RecordExec(p) ==
    /\ exec.state = "ready"
    /\ exec.FuzzStatsDB = "tracker"
    /\ Record(p)

\* nucleiExecutor.Close with an early return when the report fails.
AfterReport_ReturnOnError(reportErr) ==
    IF reportErr # "" THEN "closed" ELSE "reported"

\* nucleiExecutor.Close, part_000:183-186: a report error is logged and Close
\* goes on to close the tracker.
AfterReport(reportErr) == "reported"

\* nucleiExecutor.Close, part_000:180-186: with a tracker, GenerateReport is
\* called first; without one nothing is called on it.
nucleiExecutor_Close_Report ==
    /\ exec.state = "ready"
    /\ IF exec.FuzzStatsDB = "nil"
       THEN exec' = [exec EXCEPT !.state = "closed"]
       ELSE \E reportErr \in {"", "Failed to generate fuzzing report"} :
               exec' = [exec EXCEPT !.state = AfterReport(reportErr),
                                    !.reportErr = reportErr,
                                    !.log = Append(@, "GenerateReport")]
    /\ UNCHANGED <<db, tx, writer, files, closed, siteIDCache, templateIDCache,
                   componentIDCache, pc, ev, ids, ret, calls, faults, run,
                   cacheMutex, firstSiteID, recorded, norm>>

\* nucleiExecutor.Close, part_000:187: n.executorOpts.FuzzStatsDB.Close().
nucleiExecutor_Close_Tracker ==
    /\ exec.state = "reported"
    /\ exec' = [exec EXCEPT !.state = "closed", !.log = Append(@, "Close")]
    /\ closed' = TRUE
    /\ files' = FilesAfterClose(files)
    /\ UNCHANGED <<db, tx, writer, siteIDCache, templateIDCache,
                   componentIDCache, pc, ev, ids, ret, calls, faults, run,
                   cacheMutex, firstSiteID, recorded, norm>>

NextExec ==
    \/ newNucleiExecutor
    \/ \E p \in Procs : RecordExec(p)
    \/ \E p \in Procs : Step(p)
    \/ nucleiExecutor_Close_Report
    \/ nucleiExecutor_Close_Tracker

SpecExec == InitExec /\ [][NextExec]_vars

\* ------------------------------------------------------- the site key alone

\* Any URL text is handed to getCorrectSiteName.
InitSiteName ==
    /\ db = EmptyTables /\ tx = EmptyTables /\ writer = 0
    /\ files = AllFiles /\ closed = FALSE
    /\ siteIDCache = EmptyMap /\ templateIDCache = EmptyMap
    /\ componentIDCache = EmptyMap
    /\ pc = [p \in Procs |-> "idle"] /\ ev = [p \in Procs |-> NoEvent]
    /\ ids = [p \in Procs |-> NoIDs] /\ ret = [p \in Procs |-> Pending]
    /\ calls = 0 /\ faults = 0 /\ run = 1
    /\ cacheMutex = 0 /\ firstSiteID = EmptyMap /\ recorded = {}
    /\ exec = ExecutorWithTracker
    /\ \E raw \in RawURLs : norm = [url |-> raw, key |-> << >>, done |-> FALSE]

\* getCorrectSiteName(inputURL) returns.
Normalize ==
    /\ ~norm.done
    /\ norm' = [norm EXCEPT !.key = SiteNameOf(norm.url), !.done = TRUE]
    /\ UNCHANGED <<db, tx, writer, files, closed, siteIDCache, templateIDCache,
                   componentIDCache, pc, ev, ids, ret, calls, faults, run,
                   cacheMutex, firstSiteID, recorded, exec>>

NextSiteName == Normalize

SpecSiteName == InitSiteName /\ [][NextSiteName]_vars

\* ------------------------------------------------- longer runs of one tracker

\* A longer sequence of record calls on one open tracker: two sites with the
\* same component, and two components of one site whose type and name hold
\* the ':' that the cache key is built with.
MaxCallsDeep == 4

DeepEvents ==
    { FuzzingEvent(URL("http", "a", ""), <<"form">>, <<"login">>, "t1", "p1", 200),
      FuzzingEvent(URL("https", "b", ""), <<"form">>, <<"login">>, "t1", "p1", 200),
      FuzzingEvent(URL("http", "a", ""), <<"a", ":", "b">>, <<"c">>, "t1", "p1", 200),
      FuzzingEvent(URL("http", "a", ""), <<"a">>, <<"b", ":", "c">>, "t1", "p1", 200) }

RecordDeep(p) ==
    calls < MaxCallsDeep /\ \E e \in DeepEvents : RecordResultEvent(p, e)

NextDeep ==
    \/ \E p \in Procs : RecordDeep(p)
    \/ \E p \in Procs : Step(p)

SpecDeep == Init /\ [][NextDeep]_vars

\* ------------------------------------------------------------------ claims

Idle == \A p \in Procs : pc[p] = "idle"

Failed(r) == r.msg \notin {"", "nil"}

AfterSite ==
    {"getSiteID_Cache", "getTemplateID", "getTemplateID_Insert",
     "getTemplateID_Cache", "getComponentID", "getComponentID_Insert",
     "getComponentID_Cache", "insertFuzzingResult", "Commit"}

\* C1: record calls that run concurrently and resolve the same new natural key
\* all obtain the identifier of the one row of that key; none of them returns
\* an error.  Stated for the first tracker of a scan name (no row was stored
\* before it) and behaviours without any store failure, so that the only
\* source of an error is the race itself.
C1_ConcurrentResolutionsAgree ==
    (run = 1 /\ faults = 0) =>
        /\ \A p \in Procs : ret[p].cause # "ErrNoRows"
        /\ \A p \in Procs : pc[p] \in AfterSite =>
              \E r \in tx.sites : /\ r.site_name = ev[p].SiteName
                                  /\ r.site_id = ids[p].site

\* C2: the identifier caches are a subset of the durable store, in particular
\* once a record call whose transaction was rolled back has returned: whenever
\* no record call is running, every cache entry (key -> id) has a committed
\* row with that natural key and that identifier.
C2_CacheSubsetOfStore ==
    Idle =>
        /\ \A k \in DOMAIN siteIDCache :
              \E r \in db.sites : r.site_name = k /\ r.site_id = siteIDCache[k]
        /\ \A k \in DOMAIN templateIDCache :
              \E r \in db.templates :
                  r.template_name = k /\ r.template_id = templateIDCache[k]
        /\ \A k \in DOMAIN componentIDCache :
              \E r \in db.components :
                  /\ ComponentKey(r.site_id, r.component_type, r.component_name) = k
                  /\ r.component_id = componentIDCache[k]

\* C3: every committed fuzzing_results row references a committed component
\* row and a committed template row, and that component row references a
\* committed site row.
C3_ReferentialIntegrity ==
    \A f \in db.results :
        /\ \E t \in db.templates : t.template_id = f.template_id
        /\ \E c \in db.components :
              /\ c.component_id = f.component_id
              /\ \E s \in db.sites : s.site_id = c.site_id

\* C4: a record call that returns an error leaves the committed tables as
\* they are and drops what its transaction wrote (the write lock is released
\* and the working copy is the committed tables again); the committed tables
\* change only in the step in which a call that resolved site, template and
\* component and inserted its fact row commits and returns nil.
C4_FailureRollsBack ==
    [][ /\ \A p \in Procs :
             (pc[p] # "idle" /\ pc'[p] = "idle" /\ Failed(ret'[p])) =>
                 /\ db' = db
                 /\ writer' # p
                 /\ (writer = p => tx' = db)
        /\ (calls' # calls /\ pc' = pc) => (db' = db /\ tx' = tx)
        /\ (db' # db) =>
             \E p \in Procs :
                 /\ pc[p] = "Commit" /\ pc'[p] = "idle" /\ ret'[p] = Nil
                 /\ ids[p].site # 0 /\ ids[p].template # 0 /\ ids[p].component # 0
                 /\ db' = tx
      ]_vars

\* C4 witness: a call failed at its commit after it had inserted and cached a
\* site, and the committed tables hold nothing of it.
C4_Witness ==
    \E p \in Procs :
        /\ ret[p].msg = "could not commit transaction"
        /\ DOMAIN siteIDCache # {}
        /\ db = EmptyTables
        /\ writer = 0

\* C5: a resolution whose cache has no entry for the key while a row with that
\* natural key exists returns the identifier of the existing row and no
\* error, and goes on to cache it.
C5_ConflictReturnsExistingID ==
    [][ \A p \in Procs :
          /\ (/\ pc[p] = "getSiteID_Insert" /\ pc'[p] # pc[p] /\ faults' = faults
              /\ SiteConflict(tx, ev[p].SiteName)) =>
                 /\ pc'[p] = "getSiteID_Cache"
                 /\ \E r \in tx.sites : /\ r.site_name = ev[p].SiteName
                                        /\ r.site_id = ids'[p].site
          /\ (/\ pc[p] = "getTemplateID_Insert" /\ pc'[p] # pc[p] /\ faults' = faults
              /\ TemplateConflict(tx, ev[p].TemplateID)) =>
                 /\ pc'[p] = "getTemplateID_Cache"
                 /\ \E r \in tx.templates : /\ r.template_name = ev[p].TemplateID
                                            /\ r.template_id = ids'[p].template
          /\ (/\ pc[p] = "getComponentID_Insert" /\ pc'[p] # pc[p] /\ faults' = faults
              /\ ComponentConflict(tx, ids[p].site, ev[p].ComponentType,
                                   ev[p].ComponentName)) =>
                 /\ pc'[p] = "getComponentID_Cache"
                 /\ \E r \in tx.components : /\ r.site_id = ids[p].site
                                             /\ r.component_type = ev[p].ComponentType
                                             /\ r.component_name = ev[p].ComponentName
                                             /\ r.component_id = ids'[p].component
      ]_vars

\* C6: no dimension table holds two rows with the same natural key, in the
\* committed tables and in the working copy of the running transaction alike.
NaturalKeysUnique(t) ==
    /\ \A r1, r2 \in t.sites : r1.site_name = r2.site_name => r1 = r2
    /\ \A r1, r2 \in t.templates : r1.template_name = r2.template_name => r1 = r2
    /\ \A r1, r2 \in t.components :
          (/\ r1.site_id = r2.site_id
           /\ r1.component_type = r2.component_type
           /\ r1.component_name = r2.component_name) => r1 = r2

C6_NaturalKeysUnique == NaturalKeysUnique(db) /\ NaturalKeysUnique(tx)

\* C6 witness: an insert met a committed row of its natural key and was
\* ignored.
C6_Witness ==
    \E p \in Procs : ret[p].cause = "ErrNoRows" /\ db.sites # {}

\* C7: a record call that returns nil adds exactly one row to fuzzing_results,
\* a call that returns an error adds none, and no step changes or removes a
\* committed fact row.
C7_FactsAppendOnly ==
    [][ /\ db.results \subseteq db'.results
        /\ \A p \in Procs :
             (pc[p] # "idle" /\ pc'[p] = "idle") =>
                 IF ret'[p] = Nil
                 THEN Cardinality(db'.results) = Cardinality(db.results) + 1
                 ELSE db'.results = db.results
        /\ (\A p \in Procs : ~(pc[p] = "Commit" /\ pc'[p] = "idle" /\ ret'[p] = Nil))
              => db'.results = db.results
      ]_vars

\* C7 witness: one call returned nil, another returned an error, and there is
\* exactly one fact row.
C7_Witness ==
    \E p, q \in Procs :
        /\ ret[p] = Nil
        /\ Failed(ret[q])
        /\ Cardinality(db.results) = 1

\* C8: a record call made after close() fails with an error that is reported
\* to its caller: the caller of the tracker's record operation holds the
\* closed-state error of the store.
C8_ClosedCallReportsError ==
    \A p \in Procs :
        ret[p].cause = "closed" => RecordResultEvent_Returns(ret[p]) = ret[p]

C10_FailureReachesFacadeCaller ==
    \A p \in Procs :
        Failed(ret[p]) => RecordResultEvent_Returns(ret[p]) = ret[p]

\* C11: two record calls that committed for different site names and the same
\* component type and name obtained two distinct component identifiers,
\* whatever calls succeeded or were rolled back before them.
C11_SitesHaveDistinctComponents ==
    \A r1 \in recorded : \A r2 \in recorded :
        ( /\ r1.ev.SiteName # r2.ev.SiteName
          /\ r1.ev.ComponentType = r2.ev.ComponentType
          /\ r1.ev.ComponentName = r2.ev.ComponentName )
        => r1.ids.component # r2.ids.component

\* C12: once a resolution of a site name has returned an identifier, a later
\* resolution of the same name on the same open store is a cache hit (it goes
\* on to the template without an insert) and returns that same identifier.
C12_LaterResolutionSameID ==
    [][\A p \in Procs :
        ( /\ pc[p] = "getSiteID"
          /\ pc'[p] # "getSiteID"
          /\ ev[p].SiteName \in DOMAIN firstSiteID )
        => ( /\ pc'[p] = "getTemplateID"
             /\ ids'[p].site = firstSiteID[ev[p].SiteName] )]_vars

\* C15: the commit of a record call appends a fact row that carries the event's
\* payload and status code and references the template row named by the event
\* and the component row of the event's type and name whose site row has the
\* event's site name.
C15_FactAttributedToEvent ==
    [][\A p \in Procs :
        (pc[p] = "Commit" /\ ret'[p] = Nil) =>
            \E f \in db'.results \ db.results :
                /\ f.payload_sent = ev[p].PayloadSent
                /\ f.status_code_received = ev[p].StatusCode
                /\ \E t \in db'.templates :
                      /\ t.template_id = f.template_id
                      /\ t.template_name = ev[p].TemplateID
                /\ \E c \in db'.components :
                      /\ c.component_id = f.component_id
                      /\ c.component_type = ev[p].ComponentType
                      /\ c.component_name = ev[p].ComponentName
                      /\ \E s \in db'.sites :
                            /\ s.site_id = c.site_id
                            /\ s.site_name = ev[p].SiteName]_vars

\* C18: a component resolution that is answered by a cache hit is answered
\* from an entry of its own triple: every call that committed under the same
\* cache key had the same (site_id, component_type, component_name).
C18_CacheHitOfOwnTriple ==
    [][\A p \in Procs :
        (pc[p] = "getComponentID" /\ pc'[p] = "insertFuzzingResult") =>
            \A r \in recorded :
                ComponentKey(r.ids.site, r.ev.ComponentType, r.ev.ComponentName)
                    = KeyOf(p)
                => ( /\ r.ids.site = ids[p].site
                     /\ r.ev.ComponentType = ev[p].ComponentType
                     /\ r.ev.ComponentName = ev[p].ComponentName )]_vars

\* No two keys of a cache are mapped to the same identifier.
OneKeyPerID(cache) ==
    \A k1 \in DOMAIN cache : \A k2 \in DOMAIN cache :
        cache[k1] = cache[k2] => k1 = k2

\* Every entry of a cache is still there, unchanged, after the step.
EntriesKept(before, after) ==
    \A k \in DOMAIN before : k \in DOMAIN after /\ after[k] = before[k]

\* C19: while the same store stays open, no step removes or remaps an entry of
\* the site, template or component cache, and within each cache no two keys
\* are mapped to the same identifier.
C19_CacheEntriesStable ==
    [][run' = run =>
        /\ EntriesKept(siteIDCache, siteIDCache')
        /\ EntriesKept(templateIDCache, templateIDCache')
        /\ EntriesKept(componentIDCache, componentIDCache')
        /\ OneKeyPerID(siteIDCache')
        /\ OneKeyPerID(templateIDCache')
        /\ OneKeyPerID(componentIDCache')]_vars

\* C14: the site key of a URL is host:port when the URL has an explicit port,
\* otherwise host:443 for https, host:80 for http and the host alone for any
\* other scheme; a URL that cannot be parsed gives the empty key.  The four
\* examples of the claim are checked literally.
C14_SiteKey ==
    norm.done =>
        LET u == urlParse(norm.url).url
            ok == urlParse(norm.url).ok
            key == norm.key
        IN  /\ ~ok => key = << >>
            /\ (ok /\ u.Port # "") => key = <<u.Host, ":", u.Port>>
            /\ (ok /\ u.Port = "" /\ u.Scheme = "https")
                  => key = <<u.Host, ":", "443">>
            /\ (ok /\ u.Port = "" /\ u.Scheme = "http")
                  => key = <<u.Host, ":", "80">>
            /\ (ok /\ u.Port = "" /\ u.Scheme \notin {"http", "https"})
                  => key = (IF u.Host = "" THEN << >> ELSE <<u.Host>>)
            /\ norm.url = <<"http", "://", "example.com", "/path">>
                  => key = <<"example.com", ":", "80">>
            /\ norm.url = <<"https", "://", "example.com", "/path">>
                  => key = <<"example.com", ":", "443">>
            /\ norm.url = <<"https", "://", "example.com", ":", "8443", "/path">>
                  => key = <<"example.com", ":", "8443">>
            /\ norm.url = <<"ftp", "://", "example.com", "/path">>
                  => key = <<"example.com">>
            /\ norm.url = <<"not a url">> => key = << >>

C14_Witness ==
    /\ norm.done
    /\ norm.url = <<"https", "://", "example.com", "/path">>
    /\ norm.key = <<"example.com", ":", "443">>

\* C13: when the tracker cannot be constructed, no tracker is kept and the
\* executor is constructed all the same, with stats disabled.
C13_TrackerFailureKeepsExecutor ==
    exec.trackerErr # "" => (exec.FuzzStatsDB = "nil" /\ exec.state # "failed")

\* C17: nucleiExecutor.Close calls nothing on a tracker that does not exist;
\* on one that exists it calls GenerateReport, then Close, each once and in
\* that order, and Close also when the report failed.
C17_ReportThenCloseOnce ==
    /\ exec.FuzzStatsDB = "nil" => exec.log = << >>
    /\ exec.log \in {<< >>, <<"GenerateReport">>, <<"GenerateReport", "Close">>}
    /\ (exec.state = "closed" /\ exec.FuzzStatsDB = "tracker")
          => (exec.log = <<"GenerateReport", "Close">> /\ closed)

C17_Witness ==
    /\ exec.state = "closed"
    /\ exec.FuzzStatsDB = "tracker"
    /\ exec.reportErr # ""
    /\ exec.log = <<"GenerateReport", "Close">>
    /\ db.results # {}

\* The store statements of a record call: insert, commit, rollback.
StorePoints ==
    {"getSiteID_Insert", "getTemplateID_Insert", "getComponentID_Insert",
     "insertFuzzingResult", "Commit"}

\* C16: the caller that holds the cache mutex is at a map access, never at a
\* store statement; and under a fair scheduler every record call that was
\* started returns, with nil after its commit or with an error.
C16_LockScopeAndTermination ==
    /\ [](\A p \in Procs : cacheMutex = p =>
              (pc[p] \in LockPoints /\ pc[p] \notin StorePoints))
    /\ \A p \in Procs :
          (pc[p] # "idle") ~> (pc[p] = "idle" /\ (ret[p] = Nil \/ Failed(ret[p])))

\* One caller holds the write transaction and waits for the cache mutex that
\* another caller holds.
C16_Witness ==
    \E p \in Procs : \E q \in Procs :
        /\ p # q
        /\ cacheMutex = p
        /\ writer = q
        /\ pc[q] \in LockPoints

============================================================================
